---------------------------- MODULE Spec2Model ----------------------------
(***************************************************************************)
(* A model of ericlagergren/compressedhandler: the Accept-Encoding         *)
(* negotiation (parseCoding, parseEncodings, accepts) and the pooled       *)
(* encoder lifecycle of the two handler drafts, Handle (part_000) and      *)
(* CompressedHandler (compress.go), and the response writer they put       *)
(* around the encoder and the sink.                                        *)
(*                                                                         *)
(* Both drafts declare the same names in the same package, so a definition *)
(* of the model carries the draft it comes from as a prefix: part_ for     *)
(* src/unnamed/part_000 and compress_ for src/compress.go.                 *)
(*                                                                         *)
(* A Go string is a sequence of one-character strings here, so that Split, *)
(* TrimSpace, ToLower, HasPrefix and ParseFloat are computed on the text.  *)
(***************************************************************************)
EXTENDS Integers, Sequences, FiniteSets, TLC

\* --------------------------------------------------------------- bounds
\* Requests in flight over one behaviour of the handler.
NReq == 2
\* Write calls one inner handler makes at most.
MaxWrites == 1
\* Comma-separated elements of an Accept-Encoding header at most.
MaxTokens == 2

\* ------------------------------------------------------------ flateType
Identity == 0
Deflate == 1
Gzip == 2

\* -------------------------------------------------------------- strings
EmptyStr == << >>

IsSpace(c) == c \in {" ", "\t", "\n", "\r"}

UpperChars == <<"A","B","C","D","E","F","G","H","I","J","K","L","M",
                "N","O","P","Q","R","S","T","U","V","W","X","Y","Z">>
LowerChars == <<"a","b","c","d","e","f","g","h","i","j","k","l","m",
                "n","o","p","q","r","s","t","u","v","w","x","y","z">>

LowerChar(c) ==
    IF \E i \in 1..26 : UpperChars[i] = c
    THEN LowerChars[CHOOSE i \in 1..26 : UpperChars[i] = c]
    ELSE c

\* strings.ToLower
ToLower(s) == [i \in 1..Len(s) |-> LowerChar(s[i])]

\* strings.TrimSpace
RECURSIVE TrimLeft(_)
TrimLeft(s) ==
    IF s # << >> /\ IsSpace(Head(s)) THEN TrimLeft(Tail(s)) ELSE s

RECURSIVE TrimRight(_)
TrimRight(s) ==
    IF s # << >> /\ IsSpace(s[Len(s)])
    THEN TrimRight(SubSeq(s, 1, Len(s) - 1))
    ELSE s

TrimSpace(s) == TrimRight(TrimLeft(s))

\* strings.HasPrefix
HasPrefix(s, p) == Len(s) >= Len(p) /\ SubSeq(s, 1, Len(p)) = p

\* strings.TrimPrefix
TrimPrefix(s, p) == IF HasPrefix(s, p) THEN SubSeq(s, Len(p) + 1, Len(s)) ELSE s

\* strings.Split(s, sep) for a one-character separator: the pieces between the
\* separators, one (empty) piece for the empty string.
RECURSIVE SplitFrom(_, _, _)
SplitFrom(s, sep, cur) ==
    IF s = << >> THEN << cur >>
    ELSE IF Head(s) = sep
         THEN << cur >> \o SplitFrom(Tail(s), sep, << >>)
         ELSE SplitFrom(Tail(s), sep, Append(cur, Head(s)))

Split(s, sep) == SplitFrom(s, sep, << >>)


\* --------------------------------------------------------------- float64
\* A float64 as the code can observe it: a finite decimal n / 10^s, an
\* infinity (n = 1 or -1) or NaN.  Every comparison with NaN is false.
Fin(n, s) == [k |-> "fin", n |-> n, s |-> s]
NaN == [k |-> "nan", n |-> 0, s |-> 0]
Inf(sign) == [k |-> "inf", n |-> sign, s |-> 0]
Zero == Fin(0, 0)
One == Fin(1, 0)

RECURSIVE Pow10(_)
Pow10(e) == IF e = 0 THEN 1 ELSE 10 * Pow10(e - 1)

\* a < b on float64
FLess(a, b) ==
    CASE a.k = "nan" \/ b.k = "nan" -> FALSE
      [] a.k = "inf" /\ b.k = "inf" -> a.n < b.n
      [] a.k = "inf" -> a.n < 0
      [] b.k = "inf" -> b.n > 0
      [] OTHER -> a.n * Pow10(b.s) < b.n * Pow10(a.s)

\* a > b on float64
FGreater(a, b) == FLess(b, a)

RECURSIVE Normal(_, _)
Normal(n, s) ==
    IF n = 0 THEN Zero
    ELSE IF s > 0 /\ n % 10 = 0 THEN Normal(n \div 10, s - 1)
    ELSE Fin(n, s)

\* ---------------------------------------------------- strconv.ParseFloat
Digits == <<"0","1","2","3","4","5","6","7","8","9">>
IsDigit(c) == \E i \in 1..10 : Digits[i] = c
DigitVal(c) == (CHOOSE i \in 1..10 : Digits[i] = c) - 1

\* The number of leading decimal digits of s.
RECURSIVE DigitRun(_)
DigitRun(s) ==
    IF s # << >> /\ IsDigit(Head(s)) THEN 1 + DigitRun(Tail(s)) ELSE 0

\* The value of a sequence of decimal digits.
RECURSIVE DigitsVal(_)
DigitsVal(s) ==
    IF s = << >> THEN 0
    ELSE 10 * DigitsVal(SubSeq(s, 1, Len(s) - 1)) + DigitVal(s[Len(s)])

RECURSIVE StripZeros(_)
StripZeros(s) ==
    IF s # << >> /\ Head(s) = "0" THEN StripZeros(Tail(s)) ELSE s

Drop(s, n) == SubSeq(s, n + 1, Len(s))

ErrNil == "nil"
ErrSyntax == "strconv.ErrSyntax"
ErrRange == "strconv.ErrRange"

\* The leading decimal digits of s and what follows them.
SplitDigits(s) ==
    [d |-> SubSeq(s, 1, DigitRun(s)), rest |-> Drop(s, DigitRun(s))]

\* digits [. digits]: the digits before and after the point, and the rest.
ScanMantissa(s) ==
    LET a == SplitDigits(s)
    IN  IF a.rest # << >> /\ Head(a.rest) = "."
        THEN [int |-> a.d, frac |-> SplitDigits(Tail(a.rest)).d,
              rest |-> SplitDigits(Tail(a.rest)).rest]
        ELSE [int |-> a.d, frac |-> << >>, rest |-> a.rest]

\* The value of the digits of an exponent; one of more than four digits is
\* out of range whatever the mantissa.
ExpVal(d) == IF Len(StripZeros(d)) > 4 THEN 9999 ELSE DigitsVal(StripZeros(d))

\* [e [sign] digits]: ok is FALSE for an e without digits.
ScanExponent(s) ==
    IF s = << >> \/ ~(Head(s) \in {"e", "E"})
    THEN [ok |-> TRUE, e |-> 0, rest |-> s]
    ELSE LET t == Tail(s)
             signed == t # << >> /\ Head(t) \in {"+", "-"}
             x == SplitDigits(IF signed THEN Tail(t) ELSE t)
         IN  [ok |-> x.d # << >>,
              e |-> IF signed /\ Head(t) = "-" THEN 0 - ExpVal(x.d)
                    ELSE ExpVal(x.d),
              rest |-> x.rest]

\* The float64 of sign * mant * 10^e10 for digits mantS of value mant # 0.
\* A value out of range (the largest finite float64 is 1.797e308) is an
\* infinity and ErrRange.  Of a finite value of 10^6 or more the model
\* keeps only that it is finite and above 1.
DecimalValue(sign, mantS, e10) ==
    IF Len(mantS) + e10 > 309
    THEN [v |-> Inf(sign), err |-> ErrRange]
    ELSE IF e10 > 6
         THEN [v |-> Fin(sign * Pow10(6), 0), err |-> ErrNil]
    ELSE IF e10 >= 0
         THEN [v |-> Fin(sign * DigitsVal(mantS) * Pow10(e10), 0),
               err |-> ErrNil]
    ELSE [v |-> Normal(sign * DigitsVal(mantS), 0 - e10), err |-> ErrNil]

\* The result for a scanned mantissa m and exponent x.  A syntax error
\* returns 0.
DecimalResult(neg, m, x) ==
    IF m.int \o m.frac = << >> \/ ~x.ok \/ x.rest # << >>
    THEN [v |-> Zero, err |-> ErrSyntax]
    ELSE IF StripZeros(m.int \o m.frac) = << >>
         THEN [v |-> Zero, err |-> ErrNil]
    ELSE DecimalValue(IF neg THEN 0 - 1 ELSE 1, StripZeros(m.int \o m.frac),
                      x.e - Len(m.frac))

ScanDecimal(neg, m) == DecimalResult(neg, m, ScanExponent(m.rest))

\* [sign] digits [. digits] [e [sign] digits], after the sign was read.
ParseDecimal(neg, s) == ScanDecimal(neg, ScanMantissa(s))

\* strconv.ParseFloat(s, 64): "nan", "inf" and "infinity" in any case (the
\* infinities with an optional sign), else a decimal number.
ParseFloat(s) ==
    LET low    == ToLower(s)
        signed == low # << >> /\ Head(low) \in {"+", "-"}
        neg    == signed /\ Head(low) = "-"
        body   == IF signed THEN Tail(low) ELSE low
    IN  IF low = <<"n","a","n">> THEN [v |-> NaN, err |-> ErrNil]
        ELSE IF body \in {<<"i","n","f">>, <<"i","n","f","i","n","i","t","y">>}
             THEN [v |-> Inf(IF neg THEN 0 - 1 ELSE 1), err |-> ErrNil]
        ELSE ParseDecimal(neg, body)


\* ------------------------------------------------------------ negotiation
\* const DefaultQValue = 1.0
DefaultQValue == One

\* The qvalue clamp of parseCoding: below 0.0 becomes 0.0, above 1.0 becomes 1.0.
Clamp(q) ==
    IF FLess(q, Zero) THEN Zero
    ELSE IF FGreater(q, One) THEN One
    ELSE q

QPrefix == <<"q", "=">>

\* One iteration of parseCoding's loop over strings.Split(s, ";") in
\* part_000: acc is (coding, qvalue) after the parts before parts[n].
part_parseCodingStep(acc, n, rawPart) ==
    LET part == TrimSpace(rawPart)
    IN  IF n = 0
        THEN [coding |-> ToLower(part), qvalue |-> DefaultQValue]
        ELSE IF HasPrefix(part, QPrefix)
             THEN [coding |-> acc.coding,
                   qvalue |-> Clamp(ParseFloat(TrimPrefix(part, QPrefix)).v)]
             ELSE [coding |-> acc.coding, qvalue |-> DefaultQValue]

RECURSIVE part_parseCodingLoop(_, _, _)
part_parseCodingLoop(acc, parts, n) ==
    IF n >= Len(parts) THEN acc
    ELSE part_parseCodingLoop(part_parseCodingStep(acc, n, parts[n + 1]),
                              parts, n + 1)

\* parseCoding of part_000: (coding, qvalue) of one element of the header.
part_parseCoding(s) ==
    part_parseCodingLoop([coding |-> EmptyStr, qvalue |-> Zero],
                         Split(s, ";"), 0)

ErrEmptyContentCoding == "ErrEmptyContentCoding"

\* One iteration of parseCoding's loop in compress.go: the named result err
\* keeps its value unless this part is a q= part.
compress_parseCodingStep(acc, n, rawPart) ==
    LET part == TrimSpace(rawPart)
    IN  IF n = 0
        THEN [coding |-> ToLower(part), qvalue |-> DefaultQValue,
              err |-> acc.err]
        ELSE IF HasPrefix(part, QPrefix)
             THEN LET r == ParseFloat(TrimPrefix(part, QPrefix))
                  IN  [coding |-> acc.coding, qvalue |-> Clamp(r.v),
                       err |-> r.err]
             ELSE [coding |-> acc.coding, qvalue |-> DefaultQValue,
                   err |-> acc.err]

RECURSIVE compress_parseCodingLoop(_, _, _)
compress_parseCodingLoop(acc, parts, n) ==
    IF n >= Len(parts) THEN acc
    ELSE compress_parseCodingLoop(
             compress_parseCodingStep(acc, n, parts[n + 1]), parts, n + 1)

\* parseCoding of compress.go: (coding, qvalue, err).
compress_parseCoding(s) ==
    LET r == compress_parseCodingLoop(
                 [coding |-> EmptyStr, qvalue |-> Zero, err |-> ErrNil],
                 Split(s, ";"), 0)
    IN  IF r.coding = EmptyStr
        THEN [r EXCEPT !.err = ErrEmptyContentCoding]
        ELSE r

sIdentity == <<"i","d","e","n","t","i","t","y">>
sGzip == <<"g","z","i","p">>
sDeflate == <<"d","e","f","l","a","t","e">>

\* type codings struct { identity, gzip, deflate float64 } of part_000: the
\* zero value.
part_codings == [identity |-> Zero, gzip |-> Zero, deflate |-> Zero]

\* The switch of parseEncodings in part_000 on one parsed element.
part_assign(c, e) ==
    CASE e.coding = sIdentity -> [c EXCEPT !.identity = e.qvalue]
      [] e.coding = sGzip     -> [c EXCEPT !.gzip = e.qvalue]
      [] e.coding = sDeflate  -> [c EXCEPT !.deflate = e.qvalue]
      [] OTHER                -> c

RECURSIVE part_parseEncodingsLoop(_, _)
part_parseEncodingsLoop(c, elems) ==
    IF elems = << >> THEN c
    ELSE part_parseEncodingsLoop(part_assign(c, part_parseCoding(Head(elems))),
                                 Tail(elems))

\* parseEncodings of part_000.
part_parseEncodings(s) == part_parseEncodingsLoop(part_codings, Split(s, ","))

\* c[coding] = qvalue on a map[string]float64, kept as a function on its keys.
MapSet(c, key, val) ==
    [x \in DOMAIN c \cup {key} |-> IF x = key THEN val ELSE c[x]]

\* c[key] on a map[string]float64: the zero value for a missing key.
MapGet(c, key) == IF key \in DOMAIN c THEN c[key] ELSE Zero

EmptyMap == [x \in {} |-> Zero]

\* The body of parseEncodings' loop in compress.go: an element with an error
\* goes to the error list, any other is stored under its coding.
compress_assign(c, e) ==
    IF e.err # ErrNil THEN c ELSE MapSet(c, e.coding, e.qvalue)

RECURSIVE compress_parseEncodingsLoop(_, _)
compress_parseEncodingsLoop(c, elems) ==
    IF elems = << >> THEN c
    ELSE compress_parseEncodingsLoop(
             compress_assign(c, compress_parseCoding(Head(elems))),
             Tail(elems))

\* parseEncodings of compress.go: the map (the error list is dropped by
\* accepts, its only caller).
compress_parseEncodings(s) ==
    compress_parseEncodingsLoop(EmptyMap, Split(s, ","))

\* A negotiator that takes a weight of 0 for accepted.
part_choose_zeroAccepted(c) ==
    IF ~FLess(c.gzip, Zero) THEN Gzip
    ELSE IF ~FLess(c.deflate, Zero) THEN Deflate
    ELSE Identity

\* A negotiator that prefers the larger of the two weights.
part_choose_byWeight(c) ==
    IF FGreater(c.deflate, c.gzip) THEN Deflate
    ELSE IF FGreater(c.gzip, Zero) THEN Gzip
    ELSE Identity

\* The decision of accepts in part_000 on the parsed header.
part_choose(c) ==
    IF FGreater(c.gzip, Zero) THEN Gzip
    ELSE IF FGreater(c.deflate, Zero) THEN Deflate
    ELSE Identity

\* accepts of part_000, on the Accept-Encoding header of the request.
part_accepts(h) == part_choose(part_parseEncodings(h))

\* A negotiator like that of part_000: identity is not looked at.
compress_choose_ignoresIdentity(c) ==
    IF FGreater(MapGet(c, sGzip), Zero) THEN Gzip
    ELSE IF FGreater(MapGet(c, sDeflate), Zero) THEN Deflate
    ELSE Identity

\* A negotiator that looks at deflate before gzip.
compress_choose_deflateFirst(c) ==
    IF FGreater(MapGet(c, sIdentity), Zero) THEN Identity
    ELSE IF FGreater(MapGet(c, sDeflate), Zero) THEN Deflate
    ELSE IF FGreater(MapGet(c, sGzip), Zero) THEN Gzip
    ELSE Identity

\* The decision of accepts in compress.go on the parsed header.
compress_choose(c) ==
    IF FGreater(MapGet(c, sIdentity), Zero) THEN Identity
    ELSE IF FGreater(MapGet(c, sGzip), Zero) THEN Gzip
    ELSE IF FGreater(MapGet(c, sDeflate), Zero) THEN Deflate
    ELSE Identity

\* accepts of compress.go.
compress_accepts(h) == compress_choose(compress_parseEncodings(h))


\* --------------------------------------------------------------- encoders
\* What reaches a response sink, in order: bytes written directly ("raw")
\* and what an encoder emits: the gzip header ("hdr"), the compressed form of
\* one written chunk ("data"), the final deflate block ("final") and the
\* gzip trailer ("crc": checksum and length of all that was written since
\* the encoder was reset).
Item(t, p) == [t |-> t, p |-> p]

KGzip == "gzip"
KFlate == "flate"

\* gzip.NewWriter(nil) / flate.NewWriter(nil, level): bound to no sink.
EncNew(kind) ==
    [kind |-> kind, w |-> 0, wroteHeader |-> FALSE, closed |-> FALSE,
     failed |-> FALSE, digest |-> << >>]

\* An encoder id no constructor has returned yet.
EncFree == [EncNew(KGzip) EXCEPT !.kind = "free"]

\* A Reset that rebinds the sink and keeps the running checksum.
EncReset_keepDigest(e, w) ==
    [e EXCEPT !.w = w, !.wroteHeader = FALSE, !.closed = FALSE,
              !.failed = FALSE]

\* (*gzip.Writer).Reset(w) / (*flate.Writer).Reset(w): all state of the last
\* stream is dropped and the encoder writes into w.
EncReset(e, w) ==
    [e EXCEPT !.w = w, !.wroteHeader = FALSE, !.closed = FALSE,
              !.failed = FALSE, !.digest = << >>]

\* Write(p): the new encoder and what it emits into its sink.  gzip writes
\* its header before the first data; a write after Close fails (and a gzip
\* writer keeps the error).
EncWrite(e, p) ==
    LET hdr == IF e.kind = KGzip /\ ~e.wroteHeader
               THEN << Item("hdr", << >>) >> ELSE << >>
    IN  IF e.failed THEN [e |-> e, out |-> << >>]
        ELSE IF e.closed
             THEN [e |-> [e EXCEPT !.failed = (e.kind = KGzip),
                                   !.wroteHeader = TRUE],
                   out |-> hdr]
        ELSE [e |-> [e EXCEPT !.wroteHeader = TRUE,
                              !.digest = Append(e.digest, p)],
              out |-> hdr \o << Item("data", p) >>]

\* Close(): flushes the final block and, for gzip, the header if nothing was
\* written yet and the trailer.  A second Close does nothing.
EncClose(e) ==
    LET hdr == IF e.kind = KGzip /\ ~e.wroteHeader
               THEN << Item("hdr", << >>) >> ELSE << >>
        crc == IF e.kind = KGzip
               THEN << Item("crc", e.digest) >> ELSE << >>
    IN  IF e.failed \/ e.closed THEN [e |-> e, out |-> << >>]
        ELSE [e |-> [e EXCEPT !.closed = TRUE, !.wroteHeader = TRUE],
              out |-> hdr \o << Item("final", << >>) >> \o crc]

\* What a fresh encoder of the kind emits for the chunks, then one Close.
RECURSIVE FreshWrites(_, _)
FreshWrites(e, chunks) ==
    IF chunks = << >> THEN EncClose(e).out
    ELSE EncWrite(e, Head(chunks)).out
         \o FreshWrites(EncWrite(e, Head(chunks)).e, Tail(chunks))

FreshStream(kind, chunks) == FreshWrites(EncReset(EncNew(kind), 1), chunks)


\* --------------------------------------------------- the response writer
\* The http.ResponseWriter a wrapper is built around: its header map, its
\* status (0 until a header was written), its body, whether it implements
\* http.Hijacker, whether its connection was taken over, and what its own
\* Hijack returned last.
ErrUnHijackable == "ErrUnHijackable"
ErrHijacked == "http.ErrHijacked"

\* (net.Conn, *bufio.ReadWriter, error): 0 is nil.
HijackReturn(rwc, buf, err) == [rwc |-> rwc, buf |-> buf, err |-> err]
NoReturn == HijackReturn(0, 0, "none")

HeaderNames == {"Content-Encoding", "Content-Type"}

SinkNew(hijacker, ce) ==
    [hijacker |-> hijacker, hijacked |-> FALSE,
     header |-> [k \in HeaderNames |-> IF k = "Content-Encoding" THEN ce ELSE ""],
     status |-> 0, body |-> << >>, hijackReturn |-> NoReturn]

\* hj.Hijack() of a sink that implements http.Hijacker: the connection and
\* its buffer once, http.ErrHijacked after that.
SinkHijack(s) ==
    LET ret == IF s.hijacked THEN HijackReturn(0, 0, ErrHijacked)
               ELSE HijackReturn(1, 1, ErrNil)
    IN  [sink |-> [s EXCEPT !.hijacked = TRUE, !.hijackReturn = ret],
         ret |-> ret]

\* w.Header().Set(k, v) on the sink.
SinkSetHeader(s, k, v) == [s EXCEPT !.header[k] = v]

\* w.WriteHeader(code) on the sink: the first call sets the status.
SinkWriteHeader(s, code) ==
    IF s.status = 0 /\ ~s.hijacked THEN [s EXCEPT !.status = code] ELSE s

\* The Content-Type a sink makes up from the first bytes it is given.
Sniffed == "application/octet-stream"

\* w.Write of what an encoder emits: if no header was written yet the status
\* becomes 200 and a Content-Type that is not set is made up from the
\* bytes; on a connection taken over the write fails.
SinkWrite(s, out) ==
    IF out = << >> THEN [sink |-> s, ok |-> TRUE]
    ELSE IF s.hijacked THEN [sink |-> s, ok |-> FALSE]
    ELSE IF s.status = 0
         THEN [sink |-> [s EXCEPT !.status = 200,
                                  !.header["Content-Type"] =
                                      IF @ = "" THEN Sniffed ELSE @,
                                  !.body = @ \o out],
               ok |-> TRUE]
    ELSE [sink |-> [s EXCEPT !.body = @ \o out], ok |-> TRUE]

\* An encoder call whose output goes to the sink: the encoder keeps the
\* error of a failed write.
Emit(res, s) ==
    LET sw == SinkWrite(s, res.out)
    IN  [enc |-> IF sw.ok THEN res.e ELSE [res.e EXCEPT !.failed = TRUE],
         sink |-> sw.sink]

\* A Hijack that hands back the connection without its buffer.
part_Hijack_dropsBuf(s) ==
    IF ~s.hijacker
    THEN [sink |-> s, ret |-> HijackReturn(0, 0, ErrUnHijackable)]
    ELSE [sink |-> SinkHijack(s).sink,
          ret |-> [SinkHijack(s).ret EXCEPT !.buf = 0]]

\* (*responseWriter).Hijack of part_000.
part_Hijack(s) ==
    IF ~s.hijacker
    THEN [sink |-> s, ret |-> HijackReturn(0, 0, ErrUnHijackable)]
    ELSE SinkHijack(s)

\* CompressedResponseWriter.Hijack of compress.go.
compress_Hijack(s) ==
    IF ~s.hijacker
    THEN [sink |-> s, ret |-> HijackReturn(0, 0, ErrUnHijackable)]
    ELSE SinkHijack(s)

\* A Write that goes to the embedded http.ResponseWriter.
part_Write_toSink(e, s, p) ==
    [enc |-> e, sink |-> SinkWrite(s, << Item("raw", p) >>).sink]

\* (*responseWriter).Write of part_000: c.Writer.Write(p).
part_Write(e, s, p) == Emit(EncWrite(e, p), s)

\* CompressedResponseWriter.Write of compress.go: c.Writer.Write(b).
compress_Write(e, s, p) == Emit(EncWrite(e, p), s)

\* Header() and WriteHeader(code) of the wrapper are the methods of the
\* embedded http.ResponseWriter.
promoted_SetHeader(s, k, v) == SinkSetHeader(s, k, v)
promoted_WriteHeader(s, code) == SinkWriteHeader(s, code)


\* ------------------------------------------------------------------ state
VARIABLES
    variant,         \* the draft that is built: "part_000" or "compress"
    pc,              \* per request: where its handler function stands
    hdr,             \* per request: its Accept-Encoding header ("" when absent)
    decision,        \* per request: the result of accepts
    vary,            \* per request: the response carries Vary: Accept-Encoding
    contentEncoding, \* per request: the response's Content-Encoding ("" = unset)
    enc,             \* per request: the encoder it got from the pool (0 = none/nil)
    writer,          \* per request: what the inner handler writes to:
                     \*   "none" (not invoked), "sink" (w itself) or
                     \*   "wrapper" (the response writer around enc)
    todo,            \* per request: its deferred calls still to run
    written,         \* per request: the chunks its inner handler wrote
    sink,            \* per request: what reached its response body
    exit,            \* per request: how the handler function ended
    ran,             \* per request: the deferred calls that have run
    encoders,        \* every encoder a constructor returned, by id
    gzippers,        \* the idle set of the gzip pool
    writers,         \* the idle set of the deflate pool
    neg,             \* a header under negotiation and what both drafts make of it
    rw               \* a response writer around an encoder and a sink, and
                     \*   the last call made on it

vars == << variant, pc, hdr, decision, vary, contentEncoding, enc, writer,
           todo, written, sink, exit, ran, encoders, gzippers, writers, neg, rw >>

reqVars == << variant, pc, hdr, decision, vary, contentEncoding, enc, writer,
              todo, written, sink, exit, ran, encoders, gzippers, writers >>

Req == 1..NReq
\* Where a request stands between its arrival and the end of its handler
\* function.
InFlight == {"get", "reset", "serve", "cleanup"}
\* One encoder per request at most is ever constructed.
EncIds == 1..NReq

Part == "part_000"
Compress == "compress"

sEmpty == EmptyStr

\* The Accept-Encoding headers the requests carry.
HandlerHeaders == { sEmpty, sGzip, sDeflate }

NegIdle == [header |-> sEmpty, done |-> FALSE, partEach |-> << >>,
            compEach |-> << >>, part |-> part_codings, comp |-> EmptyMap,
            partDecision |-> Identity, compDecision |-> Identity]

\* A call made on the wrapper (or, for "Close", on its encoder by the
\* handler function that owns it) and its arguments.
Call(op, p, k, v, code) == [op |-> op, p |-> p, k |-> k, v |-> v, code |-> code]
NoCall == Call("none", << >>, "", "", 0)

\* &responseWriter{Writer: enc, ResponseWriter: w} / CompressedResponseWriter{enc, w}
\* as the branch for decision d builds it: the encoder is reset to w and
\* Content-Encoding is set.
WrapperNew(d, hijacker) ==
    [enc |-> EncReset(EncNew(IF d = Gzip THEN KGzip ELSE KFlate), 1),
     sink |-> SinkNew(hijacker, IF d = Gzip THEN "gzip" ELSE "deflate"),
     ret |-> NoReturn, last |-> NoCall, writes |-> 0]

RwIdle == WrapperNew(Gzip, FALSE)

ReqInit ==
    /\ variant \in {Part, Compress}
    /\ pc = [r \in Req |-> "idle"]
    /\ hdr = [r \in Req |-> sEmpty]
    /\ decision = [r \in Req |-> Identity]
    /\ vary = [r \in Req |-> FALSE]
    /\ contentEncoding = [r \in Req |-> ""]
    /\ enc = [r \in Req |-> 0]
    /\ writer = [r \in Req |-> "none"]
    /\ todo = [r \in Req |-> << >>]
    /\ written = [r \in Req |-> << >>]
    /\ sink = [r \in Req |-> << >>]
    /\ exit = [r \in Req |-> "none"]
    /\ ran = [r \in Req |-> {}]
    /\ encoders = [i \in EncIds |-> EncFree]
    /\ gzippers = {}
    /\ writers = {}

Init == ReqInit /\ neg = NegIdle /\ rw = RwIdle

\* ----------------------------------------------------------- the handlers
\* switch accepts(r) of the draft that is built.
accepts(v, h) == IF v = Part THEN part_accepts(h) ELSE compress_accepts(h)

\* A cleanup that runs after a return of the inner handler only.
part_deferred_returnOnly(d, how) ==
    IF d \in {Gzip, Deflate} /\ how = "returned"
    THEN << "put", "close" >> ELSE << >>

\* The deferred calls of Handle for a decision, in the order they run when
\* the handler function exits, on a return and on a panic alike.
part_deferred(d, how) ==
    IF d \in {Gzip, Deflate} THEN << "put", "close" >> ELSE << >>

\* The deferred calls of CompressedHandler: Put and Close on the Gzip path,
\* only flw.Close() on the Deflate path.
compress_deferred(d, how) ==
    IF d = Gzip THEN << "put", "close" >>
    ELSE IF d = Deflate THEN << "close" >>
    ELSE << >>

deferred(v, d, how) ==
    IF v = Part THEN part_deferred(d, how) ELSE compress_deferred(d, how)

\* Branches that name each other's coding.
part_contentEncoding_swapped(d) ==
    IF d = Gzip THEN "deflate" ELSE IF d = Deflate THEN "gzip" ELSE ""

\* w.Header().Set("Content-Encoding", ...) of Handle's branches.
part_contentEncoding(d) ==
    IF d = Gzip THEN "gzip" ELSE IF d = Deflate THEN "deflate" ELSE ""

\* w.Header().Set("Content-Encoding", ...) of CompressedHandler's branches.
compress_contentEncoding(d) ==
    IF d = Gzip THEN "gzip" ELSE IF d = Deflate THEN "deflate" ELSE ""

\* A handler function that adds Vary only when the request names codings.
part_vary_whenNegotiated(h) == h # sEmpty

\* w.Header().Add("Vary", "Accept-Encoding"), the first statement of Handle's
\* handler function: whether the response of a request with Accept-Encoding
\* header h carries it.
part_vary(h) == TRUE

\* w.Header().Add("Vary", "Accept-Encoding") of CompressedHandler.
compress_vary(h) == TRUE

\* The kind of encoder a branch asks for: GetGzip or GetWriter.
KindOf(d) == IF d = Gzip THEN KGzip ELSE KFlate

\* The lowest encoder id no constructor has returned yet.
FreeIds == { i \in EncIds : encoders[i].kind = "free" }
NextFree == CHOOSE i \in FreeIds : \A j \in FreeIds : i <= j

\* The handler function starts: Vary is added and accepts decides.  On
\* Identity the inner handler gets w itself.  Requests are numbered in the
\* order they arrive.
Arrive(r) ==
    /\ pc[r] = "idle"
    /\ IF r = 1 THEN TRUE ELSE pc[r - 1] # "idle"
    /\ \E h \in HandlerHeaders :
         LET d == accepts(variant, h)
         IN  /\ hdr' = [hdr EXCEPT ![r] = h]
             /\ decision' = [decision EXCEPT ![r] = d]
             /\ pc' = [pc EXCEPT ![r] = IF d = Identity THEN "serve" ELSE "get"]
             /\ writer' = [writer EXCEPT ![r] = IF d = Identity THEN "sink" ELSE "none"]
             /\ vary' = [vary EXCEPT ![r] =
                           IF variant = Part THEN part_vary(h)
                           ELSE compress_vary(h)]
    /\ UNCHANGED << variant, contentEncoding, enc, todo, written, sink, exit, ran,
                    encoders, gzippers, writers, neg, rw >>

\* sync.Pool.Get hands out an idle encoder of the pool.
GetIdle(r) ==
    /\ pc[r] = "get"
    /\ \E e \in (IF decision[r] = Gzip THEN gzippers ELSE writers) :
         /\ enc' = [enc EXCEPT ![r] = e]
         /\ IF decision[r] = Gzip
            THEN gzippers' = gzippers \ {e} /\ UNCHANGED writers
            ELSE writers' = writers \ {e} /\ UNCHANGED gzippers
    /\ pc' = [pc EXCEPT ![r] = "reset"]
    /\ UNCHANGED << variant, hdr, decision, vary, contentEncoding, writer,
                    todo, written, sink, exit, ran, encoders, neg, rw >>

\* g.Reset(w) / f.Reset(w) at the end of GetGzip / GetWriter on encoder e,
\* then the branch up to the call of the inner handler: the defer, the
\* Content-Encoding header, the wrapper.
Bind(r, e, encs) ==
    /\ encoders' = [encs EXCEPT ![e] = EncReset(@, r)]
    /\ contentEncoding' =
         [contentEncoding EXCEPT ![r] =
            IF variant = Part THEN part_contentEncoding(decision[r])
            ELSE compress_contentEncoding(decision[r])]
    /\ writer' = [writer EXCEPT ![r] = "wrapper"]
    /\ pc' = [pc EXCEPT ![r] = "serve"]

\* sync.Pool.Get calls New (the pool is empty, or it ignores what it
\* holds, as sync.Pool may): the constructor returns a new encoder, which no
\* other request can reach, and GetGzip / GetWriter resets it to w.
GetNew(r) ==
    /\ pc[r] = "get"
    /\ FreeIds # {}
    /\ enc' = [enc EXCEPT ![r] = NextFree]
    /\ Bind(r, NextFree,
            [encoders EXCEPT ![NextFree] = EncNew(KindOf(decision[r]))])
    /\ UNCHANGED << variant, hdr, decision, vary, todo, written, sink, exit,
                    ran, gzippers, writers, neg, rw >>

\* Writers.New of compress.go when flate.NewWriter fails: it returns
\* &tmp{w: (*flate.Writer)(nil), e: err}, and GetWriter calls f.Reset(w) on
\* the nil *flate.Writer, which dereferences nil: the handler function
\* panics before it has deferred anything or looked at the error.
\* compress.go keeps the constructor's error and GetWriter returns it;
\* part_000 drops it.
GetNewFails(r) ==
    /\ pc[r] = "get"
    /\ variant = Compress
    /\ decision[r] = Deflate
    /\ enc' = [enc EXCEPT ![r] = 0]
    /\ pc' = [pc EXCEPT ![r] = "done"]
    /\ exit' = [exit EXCEPT ![r] = "crashed"]
    /\ UNCHANGED << variant, hdr, decision, vary, contentEncoding, writer,
                    todo, written, sink, ran, encoders, gzippers, writers,
                    neg, rw >>

\* GetGzip / GetWriter resets the encoder the pool handed out, which the
\* request that put it back may still be using.
Reset(r) ==
    /\ pc[r] = "reset"
    /\ Bind(r, enc[r], encoders)
    /\ UNCHANGED << variant, hdr, decision, vary, enc, todo, written, sink,
                    exit, ran, gzippers, writers, neg, rw >>

\* The i-th chunk the inner handler of request r writes.
Chunk(r, i) == << r, i >>

\* The inner handler calls Write: on w itself the chunk reaches the sink; on
\* the wrapper it goes to the encoder (responseWriter.Write,
\* CompressedResponseWriter.Write), which emits into the sink it was last
\* reset to.
Write(r) ==
    /\ pc[r] = "serve"
    /\ Len(written[r]) < MaxWrites
    /\ LET p == Chunk(r, Len(written[r]) + 1)
       IN  /\ written' = [written EXCEPT ![r] = Append(@, p)]
           /\ IF writer[r] = "sink"
              THEN /\ sink' = [sink EXCEPT ![r] = Append(@, Item("raw", p))]
                   /\ UNCHANGED encoders
              ELSE LET res == EncWrite(encoders[enc[r]], p)
                   IN  /\ encoders' = [encoders EXCEPT ![enc[r]] = res.e]
                       /\ sink' = [sink EXCEPT ![res.e.w] = @ \o res.out]
    /\ UNCHANGED << variant, pc, hdr, decision, vary, contentEncoding, enc,
                    writer, todo, exit, ran, gzippers, writers, neg, rw >>

\* The inner handler exits, by a return or by a panic; the handler function
\* then runs its deferred calls.
Exit(r) ==
    /\ pc[r] = "serve"
    /\ \E how \in {"returned", "panicked"} :
         LET ds == deferred(variant, decision[r], how)
         IN  /\ exit' = [exit EXCEPT ![r] = how]
             /\ todo' = [todo EXCEPT ![r] = ds]
             /\ pc' = [pc EXCEPT ![r] = IF ds = << >> THEN "done" ELSE "cleanup"]
    /\ UNCHANGED << variant, hdr, decision, vary, contentEncoding, enc,
                    writer, written, sink, ran, encoders, gzippers, writers, neg, rw >>

AfterDeferred(r) ==
    /\ todo' = [todo EXCEPT ![r] = Tail(@)]
    /\ pc' = [pc EXCEPT ![r] = IF Tail(todo[r]) = << >> THEN "done" ELSE "cleanup"]

\* The deferred gzippers.Put(gzw) / writers.Put(flw) / Gzippers.Put(gzw).
Put(r) ==
    /\ pc[r] = "cleanup"
    /\ Head(todo[r]) = "put"
    /\ IF decision[r] = Gzip
       THEN gzippers' = gzippers \cup {enc[r]} /\ UNCHANGED writers
       ELSE writers' = writers \cup {enc[r]} /\ UNCHANGED gzippers
    /\ ran' = [ran EXCEPT ![r] = @ \cup {"put"}]
    /\ AfterDeferred(r)
    /\ UNCHANGED << variant, hdr, decision, vary, contentEncoding, enc,
                    writer, written, sink, exit, encoders, neg, rw >>

\* The deferred gzw.Close() / flw.Close(): what Close emits goes to the sink
\* the encoder was last reset to.
Close(r) ==
    /\ pc[r] = "cleanup"
    /\ Head(todo[r]) = "close"
    /\ LET res == EncClose(encoders[enc[r]])
       IN  /\ encoders' = [encoders EXCEPT ![enc[r]] = res.e]
           /\ sink' = [sink EXCEPT ![res.e.w] = @ \o res.out]
    /\ ran' = [ran EXCEPT ![r] = @ \cup {"close"}]
    /\ AfterDeferred(r)
    /\ UNCHANGED << variant, hdr, decision, vary, contentEncoding, enc,
                    writer, written, exit, gzippers, writers, neg, rw >>

Step(r) ==
    \/ Arrive(r)
    \/ GetIdle(r)
    \/ GetNew(r)
    \/ GetNewFails(r)
    \/ Reset(r)
    \/ Write(r)
    \/ Exit(r)
    \/ Put(r)
    \/ Close(r)

Next == \E r \in Req : Step(r)

Spec == Init /\ [][Next]_vars


\* A request that arrives when no other is in flight.
SeqArrive(r) ==
    /\ \A q \in Req : pc[q] \notin InFlight
    /\ Arrive(r)

SeqNext ==
    \E r \in Req :
        \/ SeqArrive(r)
        \/ GetIdle(r)
        \/ GetNew(r)
        \/ GetNewFails(r)
        \/ Reset(r)
        \/ Write(r)
        \/ Exit(r)
        \/ Put(r)
        \/ Close(r)

\* The handlers serving one request at a time: a request arrives only when
\* the one before it is done.
SeqSpec == Init /\ [][SeqNext]_vars

\* The Go runtime runs the deferred calls of a function that exits.
FairSpec == Spec /\ \A r \in Req : WF_vars(Put(r) \/ Close(r))

\* ------------------------------------------ the negotiation on its own
sCompress == <<"c","o","m","p","r","e","s","s">>
sStar == <<"*">>
sGzipPadded == <<" ","G","Z","i","p"," ">>

\* The parameters that follow a coding in the elements tried on gzip.
Params ==
    { <<";","q","=","0">>,
      <<";","q","=","0",".","5">>,
      <<";","q","=","1",".","0">>,
      <<";","q","=","2">>,
      <<";","q","=","-","1">>,
      <<";","q","=","a","b","c">>,
      <<";","q","=","n","a","n">>,
      <<";","q","=","1","e","9","9","9">>,
      <<" ",";"," ","q","=","0",".","5">>,
      <<";","q"," ","="," ","0">>,
      <<";","q","=","0",";","x","=","1">>,
      <<";","x","=","1",";","q","=","0">> }

pQ0 == <<";","q","=","0">>
pQHalf == <<";","q","=","0",".","5">>
pQNaN == <<";","q","=","n","a","n">>

\* The elements of the Accept-Encoding headers tried.
Tokens ==
    { sGzip, sDeflate, sIdentity, sCompress, sStar, sEmpty, sGzipPadded }
    \cup { sGzip \o p : p \in Params }
    \cup { sIdentity \o p : p \in {pQ0, pQHalf} }
    \cup { sDeflate \o p : p \in {pQ0, pQNaN} }
    \cup { sCompress \o pQHalf, sStar \o pQ0 }

RECURSIVE Join(_)
Join(ts) ==
    IF Len(ts) = 1 THEN ts[1] ELSE ts[1] \o <<",">> \o Join(Tail(ts))

\* The headers tried: one to MaxTokens elements, separated by commas.
Headers ==
    { Join(ts) : ts \in UNION { [1..n -> Tokens] : n \in 1..MaxTokens } }

\* parseCoding(ss) of each draft for every element ss of the header.
part_each(elems) == [i \in 1..Len(elems) |-> part_parseCoding(elems[i])]
compress_each(elems) == [i \in 1..Len(elems) |-> compress_parseCoding(elems[i])]

\* Both drafts negotiate the header: parseCoding on every element,
\* parseEncodings and accepts.
Negotiate ==
    /\ ~neg.done
    /\ neg' = [header |-> neg.header,
               done |-> TRUE,
               partEach |-> part_each(Split(neg.header, ",")),
               compEach |-> compress_each(Split(neg.header, ",")),
               part |-> part_parseEncodings(neg.header),
               comp |-> compress_parseEncodings(neg.header),
               partDecision |-> part_accepts(neg.header),
               compDecision |-> compress_accepts(neg.header)]
    /\ UNCHANGED << reqVars, rw >>

ParseInit ==
    /\ ReqInit
    /\ variant = Part
    /\ neg \in { [NegIdle EXCEPT !.header = h] : h \in Headers }
    /\ rw = RwIdle

ParseSpec == ParseInit /\ [][Negotiate]_vars


\* ------------------------------------------- the response writer on its own
\* What an inner handler sets through Header() and WriteHeader.
HeaderValues == {"text/plain", "identity"}
StatusCodes == {200, 404}

\* The inner handler calls Write on the wrapper.
WrapWrite ==
    /\ rw.writes < MaxWrites
    /\ LET p == Chunk(1, rw.writes + 1)
           res == IF variant = Part THEN part_Write(rw.enc, rw.sink, p)
                  ELSE compress_Write(rw.enc, rw.sink, p)
       IN  rw' = [rw EXCEPT !.enc = res.enc, !.sink = res.sink,
                            !.writes = @ + 1,
                            !.last = Call("Write", p, "", "", 0)]
    /\ UNCHANGED << reqVars, neg >>

\* The inner handler calls Header().Set(k, v) on the wrapper.
WrapHeader ==
    /\ \E k \in HeaderNames, v \in HeaderValues :
         rw' = [rw EXCEPT !.sink = promoted_SetHeader(rw.sink, k, v),
                          !.last = Call("Header", << >>, k, v, 0)]
    /\ UNCHANGED << reqVars, neg >>

\* The inner handler calls WriteHeader(code) on the wrapper.
WrapWriteHeader ==
    /\ \E code \in StatusCodes :
         rw' = [rw EXCEPT !.sink = promoted_WriteHeader(rw.sink, code),
                          !.last = Call("WriteHeader", << >>, "", "", code)]
    /\ UNCHANGED << reqVars, neg >>

\* The inner handler calls Hijack on the wrapper.
WrapHijack ==
    /\ LET res == IF variant = Part THEN part_Hijack(rw.sink)
                  ELSE compress_Hijack(rw.sink)
       IN  rw' = [rw EXCEPT !.sink = res.sink, !.ret = res.ret,
                            !.last = Call("Hijack", << >>, "", "", 0)]
    /\ UNCHANGED << reqVars, neg >>

\* The handler function's deferred Close on the encoder of the wrapper.
WrapClose ==
    /\ LET res == Emit(EncClose(rw.enc), rw.sink)
       IN  rw' = [rw EXCEPT !.enc = res.enc, !.sink = res.sink,
                            !.last = Call("Close", << >>, "", "", 0)]
    /\ UNCHANGED << reqVars, neg >>

WrapNext ==
    \/ WrapWrite
    \/ WrapHeader
    \/ WrapWriteHeader
    \/ WrapHijack
    \/ WrapClose

WrapInit ==
    /\ ReqInit
    /\ neg = NegIdle
    /\ rw \in { WrapperNew(d, hj) : d \in {Gzip, Deflate}, hj \in BOOLEAN }

WrapSpec == WrapInit /\ [][WrapNext]_vars


\* ----------------------------------------------------------------- claims
\* A request holds its encoder from the pool's Get until its Close returned.
Holding(r) == enc[r] # 0 /\ pc[r] \in {"reset", "serve", "cleanup"}

\* Bytes written to w itself, as they reach the sink.
Raw(chunks) == [i \in 1..Len(chunks) |-> Item("raw", chunks[i])]

\* C1: no encoder instance is held by two requests at once: from the moment
\* a request obtains an encoder from the pool until it has finished calling
\* Close on it, no other request obtains the same instance (Handle, and the
\* Gzip path of CompressedHandler).
C1_ExclusiveEncoder ==
    \A r1, r2 \in Req :
        (/\ r1 # r2
         /\ variant = Part \/ (decision[r1] = Gzip /\ decision[r2] = Gzip)
         /\ Holding(r1) /\ Holding(r2))
        => enc[r1] # enc[r2]

\* C2: every encoder in a pool's idle set has been closed since it was last
\* reset: an encoder is put back only after Close on it has completed.
C2_IdleEncodersClosed ==
    \A e \in gzippers \cup writers : encoders[e].closed

\* The deferred calls of the request still to run.
Pending(r) == { todo[r][i] : i \in 1..Len(todo[r]) }

\* C3: in Handle, for a request decided Gzip or Deflate, on every exit of
\* the inner handler (by a return or by a panic) the request's encoder is
\* both closed and put back into its pool: the calls still to run and those
\* that have run are Put and Close together, the next of them can always
\* run, and the handler function is done only when both have run.
C3_CleanupOnEveryExit ==
    \A r \in Req :
        (/\ variant = Part
         /\ decision[r] \in {Gzip, Deflate}
         /\ exit[r] \in {"returned", "panicked"})
        => /\ ran[r] \cup Pending(r) = {"put", "close"}
           /\ IF ran[r] = {"put", "close"}
              THEN pc[r] = "done"
              ELSE pc[r] = "cleanup" /\ ENABLED (Put(r) \/ Close(r))

\* A request of Handle whose inner handler panicked has put back and closed
\* its deflate encoder.
C3_Witness ==
    \E r \in Req :
        /\ variant = Part
        /\ decision[r] = Deflate
        /\ exit[r] = "panicked"
        /\ pc[r] = "done"
        /\ ran[r] = {"put", "close"}

\* C4: with Handle serving gzip requests one at a time and the pool reusing
\* encoders between them, the sink of each finished request holds exactly
\* the stream a fresh encoder produces from the chunks that request's inner
\* handler wrote, in order, followed by one Close.
C4_SequentialGzipStreams ==
    \A r \in Req :
        (variant = Part /\ decision[r] = Gzip /\ pc[r] = "done")
        => sink[r] = FreshStream(KGzip, written[r])

\* Two gzip requests of Handle are done, the second on the encoder the first
\* one used, and both inner handlers wrote.
C4_Witness ==
    /\ variant = Part
    /\ \A r \in {1, 2} :
         decision[r] = Gzip /\ pc[r] = "done" /\ written[r] # << >>
    /\ enc[1] = enc[2]

\* C5: in CompressedHandler, when the construction of the deflate encoder
\* fails for a Deflate request, GetWriter returns the error without
\* crashing and the request completes on the Identity path: the inner
\* handler gets the unmodified sink, no Content-Encoding is set and the sink
\* holds only the bytes the inner handler wrote.
C5_FallbackToIdentity ==
    \A r \in Req :
        (/\ variant = Compress
         /\ decision[r] = Deflate
         /\ enc[r] = 0
         /\ pc[r] \in {"serve", "cleanup", "done"})
        => /\ exit[r] # "crashed"
           /\ pc[r] = "done" =>
                /\ writer[r] = "sink"
                /\ contentEncoding[r] = ""
                /\ sink[r] = Raw(written[r])

\* The request took this step.
Stepped(r) ==
    pc'[r] # pc[r] \/ written'[r] # written[r] \/ todo'[r] # todo[r]

\* C6: a request whose Accept-Encoding header is absent or empty is decided
\* Identity by both negotiators; its inner handler gets the unmodified sink,
\* no Content-Encoding is set, the sink holds exactly the bytes the inner
\* handler wrote, and no step of the request takes an encoder or changes a
\* pool.
C6_NoHeaderIsIdentity ==
    /\ [](\A r \in Req :
            (pc[r] # "idle" /\ hdr[r] = sEmpty)
            => /\ decision[r] = Identity
               /\ writer[r] = "sink"
               /\ contentEncoding[r] = ""
               /\ enc[r] = 0
               /\ sink[r] = Raw(written[r]))
    /\ [][\A r \in Req :
            (hdr'[r] = sEmpty /\ Stepped(r))
            => UNCHANGED << encoders, gzippers, writers >>]_vars

\* A request without header is done and its inner handler wrote, while the
\* gzip pool holds an idle encoder.
C6_Witness ==
    \E r \in Req :
        /\ hdr[r] = sEmpty
        /\ pc[r] = "done"
        /\ written[r] # << >>
        /\ gzippers # {}

\* C7: in Handle, once the inner handler is invoked, Content-Encoding is
\* "gzip" exactly when the decision is Gzip and the inner handler writes
\* through a gzip encoder, "deflate" exactly when the decision is Deflate
\* and it writes through a deflate encoder, and unset exactly when it
\* writes to the unmodified sink.
C7_ContentEncodingMatchesPath ==
    \A r \in Req :
        (variant = Part /\ writer[r] # "none")
        => /\ contentEncoding[r] = "gzip"
                <=> (/\ decision[r] = Gzip
                     /\ writer[r] = "wrapper"
                     /\ encoders[enc[r]].kind = KGzip)
           /\ contentEncoding[r] = "deflate"
                <=> (/\ decision[r] = Deflate
                     /\ writer[r] = "wrapper"
                     /\ encoders[enc[r]].kind = KFlate)
           /\ contentEncoding[r] = "" <=> writer[r] = "sink"

\* The inner handler of a Deflate request of Handle has written through the
\* wrapper while another request writes to its sink directly.
C7_Witness ==
    \E r, q \in Req :
        /\ variant = Part
        /\ contentEncoding[r] = "deflate"
        /\ written[r] # << >>
        /\ writer[q] = "sink"

\* C8: accepts of part_000 returns Gzip if and only if the retained gzip
\* weight is greater than 0; otherwise Deflate if and only if the retained
\* deflate weight is greater than 0; otherwise Identity, whatever the
\* identity weight and whichever of the two weights is larger.
C8_GzipThenDeflate ==
    neg.done =>
        /\ neg.partDecision = Gzip <=> FGreater(neg.part.gzip, Zero)
        /\ neg.partDecision = Deflate
             <=> (/\ ~FGreater(neg.part.gzip, Zero)
                  /\ FGreater(neg.part.deflate, Zero))
        /\ neg.partDecision = Identity
             <=> (/\ ~FGreater(neg.part.gzip, Zero)
                  /\ ~FGreater(neg.part.deflate, Zero))

\* Gzip is chosen although deflate has the larger weight.
C8_Witness ==
    /\ neg.done
    /\ neg.partDecision = Gzip
    /\ FLess(neg.part.gzip, neg.part.deflate)

\* C9: the mapping parseEncodings returns, in both drafts, holds entries
\* only for identity, gzip and deflate.
C9_OnlyKnownCodings ==
    neg.done =>
        /\ DOMAIN neg.part \subseteq {"identity", "gzip", "deflate"}
        /\ DOMAIN neg.comp \subseteq {sIdentity, sGzip, sDeflate}

\* 0.0 <= q and q <= 1.0
InUnit(q) == q.k = "fin" /\ 0 <= q.n /\ q.n <= Pow10(q.s)

\* C10: every weight parseEncodings retains, in both drafts, lies in
\* [0.0, 1.0], whatever text follows q=.
C10_WeightsInUnitInterval ==
    neg.done =>
        /\ \A f \in DOMAIN neg.part : InUnit(neg.part[f])
        /\ \A c \in DOMAIN neg.comp : InUnit(neg.comp[c])

\* C11: Hijack on the wrapper (responseWriter, CompressedResponseWriter)
\* returns what the underlying sink's Hijack returned, unchanged, when the
\* sink supports hijacking; when it does not, it returns ErrUnHijackable
\* with no connection and no buffer, and the sink's connection is not taken.
C11_HijackDelegates ==
    rw.ret # NoReturn =>
        IF rw.sink.hijacker
        THEN rw.ret = rw.sink.hijackReturn
        ELSE /\ rw.ret = HijackReturn(0, 0, ErrUnHijackable)
             /\ ~rw.sink.hijacked
             /\ rw.sink.hijackReturn = NoReturn

\* Hijack was called on a wrapper whose sink is no http.Hijacker, after the
\* inner handler wrote through it.
C11_Witness ==
    /\ ~rw.sink.hijacker
    /\ rw.last.op = "Hijack"
    /\ rw.ret.err = ErrUnHijackable
    /\ rw.writes > 0

\* C12: a Write on the wrapper goes to the encoder only: the encoder takes
\* the chunk and the sink's body gets nothing but what encoders emit; a
\* Header or WriteHeader call does to the sink what the same call on the
\* sink does, and leaves the encoder alone; no call on the wrapper changes
\* whether the encoder is closed, and none but a Header call changes a
\* header, Content-Encoding included (the sink itself fills in a missing
\* Content-Type when it gets its first bytes).
C12_WrapperOnlyForwards ==
    [][LET op == rw'.last.op
       IN  /\ op = "Write" =>
                /\ (~rw.enc.closed /\ ~rw.enc.failed)
                     => rw'.enc.digest = Append(rw.enc.digest, rw'.last.p)
                /\ \A i \in DOMAIN rw'.sink.body : rw'.sink.body[i].t # "raw"
           /\ op = "Header" =>
                /\ rw'.sink = SinkSetHeader(rw.sink, rw'.last.k, rw'.last.v)
                /\ rw'.enc = rw.enc
           /\ op = "WriteHeader" =>
                /\ rw'.sink = SinkWriteHeader(rw.sink, rw'.last.code)
                /\ rw'.enc = rw.enc
           /\ op = "Hijack" => rw'.enc = rw.enc
           /\ op # "Close" => rw'.enc.closed = rw.enc.closed
           /\ op # "Header" =>
                \A k \in HeaderNames :
                    \/ rw'.sink.header[k] = rw.sink.header[k]
                    \/ /\ k = "Content-Type"
                       /\ rw.sink.header[k] = "" /\ rw.sink.status = 0
                       /\ rw'.sink.header[k] = Sniffed
                       /\ rw'.sink.body # rw.sink.body]_vars

\* The inner handler has set a header and written through the wrapper, and
\* the encoder is still open.
C12_Witness ==
    /\ rw.last.op = "Write"
    /\ rw.sink.body # << >>
    /\ rw.sink.header["Content-Type"] = "text/plain"
    /\ rw.sink.status = 404
    /\ ~rw.enc.closed

\* C13: both handler functions add Vary: Accept-Encoding for every request,
\* before the inner handler runs and whatever the decision: Identity, Gzip,
\* Deflate, or a Deflate request whose encoder could not be constructed.
C13_VaryAlways ==
    \A r \in Req : pc[r] # "idle" => vary[r]

\* With CompressedHandler, one request ended in the failed construction of
\* its encoder and another was served on the Identity path; both carry Vary.
C13_Witness ==
    \E r, q \in Req :
        /\ variant = Compress
        /\ exit[r] = "crashed" /\ vary[r]
        /\ decision[q] = Identity /\ writer[q] = "sink" /\ vary[q]

\* C14: in CompressedHandler, the encoder a Deflate request got is back in
\* the Writers pool (or handed on to a later request) once the request has
\* ended.
C14_DeflateEncoderReleased ==
    \A r \in Req :
        (/\ variant = Compress
         /\ decision[r] = Deflate
         /\ enc[r] # 0
         /\ pc[r] = "done")
        => \/ enc[r] \in writers
           \/ \E q \in Req : q # r /\ enc[q] = enc[r]


\* The elements of the header under negotiation.
Elems == Split(neg.header, ",")

\* The texts that follow q= in the parts of an element after its first.
QTexts(elem) ==
    LET parts == Split(elem, ";")
        IsQ(part) == HasPrefix(TrimSpace(part), QPrefix)
        qs == SelectSeq(Tail(parts), IsQ)
    IN  [i \in 1..Len(qs) |-> TrimPrefix(TrimSpace(qs[i]), QPrefix)]

\* gzip or deflate has a weight above 0 for this draft.
PartAccepted == FGreater(neg.part.gzip, Zero) \/ FGreater(neg.part.deflate, Zero)
CompAccepted ==
    \/ FGreater(MapGet(neg.comp, sGzip), Zero)
    \/ FGreater(MapGet(neg.comp, sDeflate), Zero)

\* The header has an element identity;q=0 and identity ends with weight 0.
IdentityRefused ==
    /\ \E i \in DOMAIN neg.partEach :
         neg.partEach[i].coding = sIdentity /\ QTexts(Elems[i]) = << <<"0">> >>
    /\ neg.part.identity = Zero
    /\ MapGet(neg.comp, sIdentity) = Zero

\* C15 as stated: for a header with identity;q=0 alongside a coding both
\* drafts accept, accepts of compress.go and accepts of part_000 return
\* different codings.
C15_IdentityZeroDiffers ==
    (neg.done /\ IdentityRefused /\ PartAccepted /\ CompAccepted)
    => neg.partDecision # neg.compDecision

\* C15 amended: the two policies differ when identity has a weight above 0
\* alongside an accepted coding: accepts of compress.go returns Identity and
\* accepts of part_000 returns the accepted coding.
C15_PositiveIdentityDiffers ==
    (neg.done /\ FGreater(MapGet(neg.comp, sIdentity), Zero) /\ PartAccepted)
    => /\ neg.compDecision = Identity
       /\ neg.partDecision \in {Gzip, Deflate}

\* gzip,identity;q=0.5 or the like: compress.go answers Identity, part_000 Gzip.
C15_Witness ==
    /\ neg.done
    /\ FGreater(MapGet(neg.comp, sIdentity), Zero)
    /\ FLess(MapGet(neg.comp, sIdentity), One)
    /\ neg.partDecision = Gzip
    /\ neg.compDecision = Identity

\* C16: in parseCoding of part_000, an element whose q= text is no number
\* keeps the default weight 1.0.
C16_MalformedKeepsDefault ==
    neg.done =>
        \A i \in DOMAIN neg.partEach :
            (/\ Len(QTexts(Elems[i])) = 1
             /\ Len(Split(Elems[i], ";")) = 2
             /\ ParseFloat(QTexts(Elems[i])[1]).err = ErrSyntax)
            => neg.partEach[i].qvalue = DefaultQValue

\* No element names identity, or identity ends with weight 0 in both drafts.
IdentityOut ==
    \/ \A i \in DOMAIN neg.partEach : neg.partEach[i].coding # sIdentity
    \/ neg.part.identity = Zero /\ MapGet(neg.comp, sIdentity) = Zero

\* C17 as stated: for every header in which identity is absent or has
\* weight 0, accepts of compress.go and accepts of part_000 return the same
\* decision, malformed and out-of-range q values included.
C17_NegotiatorsAgree ==
    (neg.done /\ IdentityOut) => neg.partDecision = neg.compDecision

\* Every q= text of every element is a number strconv.ParseFloat takes
\* without error.
WellFormedQs ==
    \A i \in DOMAIN Elems :
        \A j \in DOMAIN QTexts(Elems[i]) :
            ParseFloat(QTexts(Elems[i])[j]).err = ErrNil

\* C17 amended: for every header in which identity is absent or has weight
\* 0 and in which every q value is a number ParseFloat takes without error,
\* the two negotiators return the same decision, repeated codings included.
C17_AgreeOnWellFormed ==
    (neg.done /\ IdentityOut /\ WellFormedQs)
    => neg.partDecision = neg.compDecision

\* A coding repeated with two weights, the later one deciding, in a header
\* both negotiators answer with Gzip.
C17_Witness ==
    /\ neg.done /\ IdentityOut /\ WellFormedQs
    /\ Len(neg.partEach) = 2
    /\ neg.partEach[1].coding = sGzip
    /\ neg.partEach[2].coding = sGzip
    /\ neg.partEach[1].qvalue # neg.partEach[2].qvalue
    /\ neg.partDecision = Gzip
    /\ neg.compDecision = Gzip

\* C18: for an element with one q= part whose text is a number, parseCoding
\* of both drafts returns the clamped value of that number, whatever other
\* parts come before or after it.
C18_QDecidesAmongParts ==
    neg.done =>
        \A i \in DOMAIN Elems :
            (/\ Len(QTexts(Elems[i])) = 1
             /\ ParseFloat(QTexts(Elems[i])[1]).err = ErrNil)
            => /\ neg.partEach[i].qvalue = Clamp(ParseFloat(QTexts(Elems[i])[1]).v)
               /\ neg.compEach[i].qvalue = Clamp(ParseFloat(QTexts(Elems[i])[1]).v)

\* The text without the white space next to its = signs.
RECURSIVE Tight(_)
Tight(s) ==
    IF s = << >> THEN << >>
    ELSE IF Head(s) = "=" THEN <<"=">> \o Tight(TrimLeft(Tail(s)))
    ELSE IF IsSpace(Head(s)) /\ TrimLeft(s) # << >> /\ Head(TrimLeft(s)) = "="
         THEN Tight(TrimLeft(s))
    ELSE << Head(s) >> \o Tight(Tail(s))

\* C19: parseCoding gives an element written with white space around = the
\* weight it gives the same element written without it.
C19_SpaceAroundEquals ==
    neg.done =>
        \A i \in DOMAIN Elems :
            /\ neg.partEach[i].qvalue = part_parseCoding(Tight(Elems[i])).qvalue
            /\ neg.compEach[i].qvalue = compress_parseCoding(Tight(Elems[i])).qvalue


=============================================================================
